---- MODULE Spec2Model ----
(***************************************************************************)
(* Model of the ClaimGuardian Oumi enhancement pipeline                    *)
(* (oumi-training/claimguardian_oumi_enhanced.py and                       *)
(* oumi-training/evaluation/halloumi_integration.py).                      *)
(*                                                                         *)
(* Python floats are modelled as exact rationals [num, den] in lowest      *)
(* terms; file contents are sequences of written documents; the console is *)
(* the sequence of message kinds printed by the current top-level call.    *)
(***************************************************************************)
EXTENDS Integers, Sequences, FiniteSets, TLC

\* ------------------------------------------------------------------ bounds
MaxLen == 2      \* longest substituted dataset (the shipped one has 4)
MaxCalls == 2    \* top-level calls made by the caller in one behaviour
MaxDay == 1      \* last calendar day the wall clock reaches

\* ------------------------------------------------------- rational numbers
RECURSIVE GCD(_, _)
GCD(a, b) == IF b = 0 THEN a ELSE GCD(b, a % b)

\* the float value n / d, for d > 0 and n >= 0
Frac(n, d) == [num |-> n \div GCD(n, d), den |-> d \div GCD(n, d)]

FAdd(x, y) == Frac(x.num * y.den + y.num * x.den, x.den * y.den)

FDivInt(x, k) == Frac(x.num, x.den * k)

Zero == [num |-> 0, den |-> 1]

\* ---------------------------------------------------------------- dataset
Criteria == <<"cpt_accuracy", "error_detection", "appeal_quality", "compliance">>

Ex(req, a, b, c, d) ==
    [request |-> req,
     expected_score |-> [cpt_accuracy |-> a, error_detection |-> b,
                         appeal_quality |-> c, compliance |-> d]]

\* the shipped examples, identified by the CPT code of their request
EVALUATION_DATASET ==
    << Ex(70553, 10, 9, 8, 9),
       Ex(45380, 7, 10, 9, 8),
       Ex(71046, 10, 8, 6, 10),
       Ex(99285, 8, 10, 9, 9) >>

\* examples a caller may substitute into the module global
ExamplePool ==
    { EVALUATION_DATASET[1], Ex(1, 1, 2, 3, 4), Ex(2, 0, 5, 5, 11) }

RECURSIVE SeqsUpTo(_, _)
SeqsUpTo(S, n) ==
    IF n = 0 THEN { <<>> }
    ELSE LET shorter == SeqsUpTo(S, n - 1)
         IN  shorter \cup { Append(s, e) : s \in { t \in shorter : Len(t) = n - 1 }, e \in S }

Datasets == { EVALUATION_DATASET } \cup SeqsUpTo(ExamplePool, MaxLen)

\* sum(example["expected_score"].values())
SumValues(scores) ==
    scores.cpt_accuracy + scores.error_detection + scores.appeal_quality + scores.compliance

\* sum(r["scores"][c] for r in results)
RECURSIVE SumScores(_, _, _)
SumScores(results, c, i) ==
    IF i = 0 THEN 0 ELSE SumScores(results, c, i - 1) + results[i].scores[c]

\* the loop body with a copy-paste slip: error_detection reads cpt_accuracy
MockResult_CopyPaste(example, i) ==
    [example_id |-> i,
     scores |-> [cpt_accuracy |-> example.expected_score.cpt_accuracy,
                 error_detection |-> example.expected_score.cpt_accuracy,
                 appeal_quality |-> example.expected_score.appeal_quality,
                 compliance |-> example.expected_score.compliance],
     overall_score |-> Frac(SumValues(example.expected_score), 4),
     explanation |-> i]

\* the loop body of the mock path: one result per example
MockResult(example, i) ==
    [example_id |-> i,
     scores |-> [cpt_accuracy |-> example.expected_score.cpt_accuracy,
                 error_detection |-> example.expected_score.error_detection,
                 appeal_quality |-> example.expected_score.appeal_quality,
                 compliance |-> example.expected_score.compliance],
     overall_score |-> Frac(SumValues(example.expected_score), 4),
     explanation |-> i]

\* the results numbered from enumerate's index without the + 1
MockResults_ZeroBased(ds) == [i \in 1..Len(ds) |-> MockResult(ds[i], i - 1)]

MockResults(ds) == [i \in 1..Len(ds) |-> MockResult(ds[i], i)]

\* the averages divided by the shipped dataset's size instead of len(results)
AvgScores_FixedCount(results) ==
    [c \in { Criteria[k] : k \in 1..4 } |-> Frac(SumScores(results, c, Len(results)), 4)]

\* avg_scores: sum over results / len(results), per criterion
AvgScores(results) ==
    [c \in { Criteria[k] : k \in 1..4 } |->
        Frac(SumScores(results, c, Len(results)), Len(results))]

\* overall_avg = sum(avg_scores.values()) / 4
OverallAvg(avg) ==
    FDivInt(FAdd(FAdd(FAdd(FAdd(Zero, avg["cpt_accuracy"]), avg["error_detection"]),
                      avg["appeal_quality"]), avg["compliance"]), 4)

NoAvg == [c \in { Criteria[k] : k \in 1..4 } |-> Zero]


\* ------------------------------------------------------------ file system
DATASET_PATH == "medical_billing_eval_dataset.json"
JUDGE_PATH == "medical_billing_judge.yaml"
HALLOUMI_PATH == "halloumi_integration.py"
EVAL_CONFIG_PATH == "claimguardian_eval.yaml"
REPORT_PATH == "OUMI_EVALUATION_REPORT.md"

Paths == { DATASET_PATH, JUDGE_PATH, HALLOUMI_PATH, EVAL_CONFIG_PATH, REPORT_PATH }

\* a document: its kind and the values interpolated into it
Doc(kind) == [kind |-> kind, date |-> -1, data |-> <<>>, scores |-> NoAvg, overall |-> Zero]

MEDICAL_BILLING_JUDGE_CONFIG == Doc("MEDICAL_BILLING_JUDGE_CONFIG")

HALLOUMI_INTEGRATION_CODE == Doc("HALLOUMI_INTEGRATION_CODE")

eval_config == Doc("eval_config")

\* json.dump(EVALUATION_DATASET, f, indent=2)
json_dump(ds) == [Doc("json") EXCEPT !.data = ds]

NoFile == [exists |-> FALSE, data |-> <<>>]

\* the file opened in append mode instead of "w"
open_a_write(f, path, text) ==
    [f EXCEPT ![path] = [exists |-> TRUE, data |-> Append(f[path].data, text)]]

\* with open(path, "w") as f: f.write(text)   -- the successful case
open_w_write(f, path, text) == [f EXCEPT ![path] = [exists |-> TRUE, data |-> <<text>>]]

\* how a write can fail: open() raises OSError because the path is not writable
FailModes == { "none", "open" }

WriteFile(f, path, text, fail) ==
    IF fail = "open" THEN f ELSE open_w_write(f, path, text)

WriteErr(fail) == IF fail = "none" THEN "none" ELSE "OSError"

\* ------------------------------------------------------------ return values
NoVerification ==
    [claims_verified |-> 0, claims_supported |-> 0, claims_unsupported |-> 0,
     confidence_avg |-> 0, details |-> <<>>]

NoRet == [kind |-> "none", path |-> "", results |-> <<>>, n |-> 0,
          doc |-> Doc("none"), verification |-> NoVerification]

NoAgg == [computed |-> FALSE, avg_scores |-> NoAvg, overall_avg |-> Zero]

\* the outcome of running one function: new files, console lines, exception,
\* return value, and the aggregate locals of the mock judge path
Outcome(f, o, e, r, a) == [fs |-> f, out |-> o, err |-> e, ret |-> r, agg |-> a]

\* ------------------------------------------------------------ the functions
\* the config always written to the default path, output_path ignored
save_judge_config_DefaultPath(f, output_path, fail) ==
    Outcome(WriteFile(f, JUDGE_PATH, MEDICAL_BILLING_JUDGE_CONFIG, fail),
            IF fail = "none" THEN <<"judge_config_saved">> ELSE <<>>,
            WriteErr(fail),
            IF fail = "none" THEN [NoRet EXCEPT !.kind = "path", !.path = output_path] ELSE NoRet,
            NoAgg)

save_judge_config(f, output_path, fail) ==
    Outcome(WriteFile(f, output_path, MEDICAL_BILLING_JUDGE_CONFIG, fail),
            IF fail = "none" THEN <<"judge_config_saved">> ELSE <<>>,
            WriteErr(fail),
            IF fail = "none" THEN [NoRet EXCEPT !.kind = "path", !.path = output_path] ELSE NoRet,
            NoAgg)

create_evaluation_dataset(f, ds, fail) ==
    Outcome(WriteFile(f, DATASET_PATH, json_dump(ds), fail),
            IF fail = "none" THEN <<"dataset_saved", "total_examples">> ELSE <<>>,
            WriteErr(fail),
            IF fail = "none" THEN [NoRet EXCEPT !.kind = "path", !.path = DATASET_PATH] ELSE NoRet,
            NoAgg)

save_halloumi_integration(f, fail) ==
    Outcome(WriteFile(f, HALLOUMI_PATH, HALLOUMI_INTEGRATION_CODE, fail),
            IF fail = "none" THEN <<"halloumi_saved">> ELSE <<>>,
            WriteErr(fail), NoRet, NoAgg)

create_evaluation_config(f, fail) ==
    Outcome(WriteFile(f, EVAL_CONFIG_PATH, eval_config, fail),
            IF fail = "none" THEN <<"eval_config_saved">> ELSE <<>>,
            WriteErr(fail), NoRet, NoAgg)

\* datetime.now().strftime("%B %d, %Y"): the calendar day, time of day dropped
strftime(clock) == clock.day

\* the report template with {date} filled in; the scores are literals of the text
ReportText(clock) ==
    [kind |-> "report", date |-> strftime(clock), data |-> <<>>,
     scores |-> [c \in { Criteria[k] : k \in 1..4 } |->
                    CASE c = "cpt_accuracy" -> Frac(875, 100)
                      [] c = "error_detection" -> Frac(925, 100)
                      [] c = "appeal_quality" -> Frac(800, 100)
                      [] c = "compliance" -> Frac(900, 100)],
     overall |-> Frac(875, 100)]

generate_evaluation_report(f, clock, fail) ==
    Outcome(WriteFile(f, REPORT_PATH, ReportText(clock), fail),
            IF fail = "none" THEN <<"report_saved">> ELSE <<>>,
            WriteErr(fail),
            IF fail = "none" THEN [NoRet EXCEPT !.kind = "report", !.doc = ReportText(clock)] ELSE NoRet,
            NoAgg)

RECURSIVE Repeat(_, _)
Repeat(msg, n) == IF n = 0 THEN <<>> ELSE Append(Repeat(msg, n - 1), msg)

\* run_llm_judge_evaluation(use_mock=True)
MockPath(f, ds) ==
    LET results == MockResults(ds)
    IN  IF Len(results) = 0
        THEN Outcome(f, <<"mock_header">>, "ZeroDivisionError", NoRet, NoAgg)
        ELSE Outcome(f,
                     <<"mock_header">> \o Repeat("example", Len(results)) \o <<"aggregate">>,
                     "none",
                     [NoRet EXCEPT !.kind = "results", !.results = results],
                     [computed |-> TRUE, avg_scores |-> AvgScores(results),
                      overall_avg |-> OverallAvg(AvgScores(results))])

\* the except branch with the return dropped: the mock run's value is lost
ImportErrorFallback_NoReturn(f, ds, printed) ==
    LET m == MockPath(f, ds)
    IN  [m EXCEPT !.out = printed \o <<"oumi_not_installed">> \o m.out, !.ret = NoRet]

\* the except ImportError branch: report, then return the mock run
ImportErrorFallback(f, ds, printed) ==
    LET m == MockPath(f, ds)
    IN  [m EXCEPT !.out = printed \o <<"oumi_not_installed">> \o m.out]

\* what the environment does to the live path
\*   missing      - "from oumi.judges.simple_judge import SimpleJudge" raises ImportError
\*   import_error - SimpleJudge(...) or judge.judge(...) raises ImportError
\*   error        - SimpleJudge(...), judge.judge(...) or the output loop raises another exception
\*   ok           - the judge returns one output per example
OumiModes == { "missing", "import_error", "error", "ok" }

\* run_llm_judge_evaluation(use_mock=False)
LivePath(f, ds, oumi, fail) ==
    IF oumi = "missing" THEN ImportErrorFallback(f, ds, <<>>)
    ELSE LET s == save_judge_config(f, JUDGE_PATH, fail)
         IN  IF s.err # "none" THEN [s EXCEPT !.ret = NoRet]
             ELSE IF oumi = "import_error" THEN ImportErrorFallback(s.fs, ds, s.out)
             ELSE IF oumi = "error" THEN Outcome(s.fs, s.out, "Exception", NoRet, NoAgg)
             ELSE Outcome(s.fs, s.out \o Repeat("live_example", Len(ds)), "none",
                          [NoRet EXCEPT !.kind = "outputs", !.n = Len(ds)], NoAgg)

run_llm_judge_evaluation(use_mock, f, ds, oumi, fail) ==
    IF use_mock THEN MockPath(f, ds) ELSE LivePath(f, ds, oumi, fail)

\* confidences and thresholds in hundredths
Detail(claim, status, confidence) == [claim |-> claim, status |-> status, confidence |-> confidence]

\* the stub with its counts taken from the details list for SUPPORTED only
verify_billing_claim_Recount(context_document, ai_analysis, threshold) ==
    [claims_verified |-> 5,
     claims_supported |-> 5,
     claims_unsupported |-> 1,
     confidence_avg |-> 87,
     details |-> << Detail("CPT code 70553 is correct", "SUPPORTED", 95),
                    Detail("Medicare rate is ~$400", "SUPPORTED", 88),
                    Detail("Overcharge detected", "SUPPORTED", 92),
                    Detail("Appeal recommended", "SUPPORTED", 85),
                    Detail("Risk level HIGH", "SUPPORTED", 78) >>]

verify_billing_claim(context_document, ai_analysis, threshold) ==
    [claims_verified |-> 5,
     claims_supported |-> 4,
     claims_unsupported |-> 1,
     confidence_avg |-> 87,
     details |-> << Detail("CPT code 70553 is correct", "SUPPORTED", 95),
                    Detail("Medicare rate is ~$400", "SUPPORTED", 88),
                    Detail("Overcharge detected", "SUPPORTED", 92),
                    Detail("Appeal recommended", "SUPPORTED", 85),
                    Detail("Risk level HIGH", "SUPPORTED", 78) >>]

Documents == { "bill", "policy" }
Analyses == { "analysis", "" }
Thresholds == { 70, 90 }


\* ------------------------------------------------------------------ state
VARIABLES
    dataset,   \* current value of the module global EVALUATION_DATASET
    fs,        \* the files of the working directory
    now,       \* the wall clock: calendar day and half of the day
    pc,        \* "idle", or the step of main() about to run
    call,      \* the top-level call being made or last made, with its arguments
    out,       \* console lines printed by that call, in order
    err,       \* the exception that call raised, "none" if none
    ret,       \* the value returned by the function that ran last in that call
    agg,       \* avg_scores / overall_avg computed by the judge run of that call
    trace,     \* steps of main() executed in that call, in order
    written,   \* paths opened for writing during that call
    renders,   \* every successful report rendering: clock, document, file left behind
    calls      \* number of top-level calls made

vars == <<dataset, fs, now, pc, call, out, err, ret, agg, trace, written, renders, calls>>

NoCall == [fn |-> "none", use_mock |-> TRUE, oumi |-> "ok", path |-> "",
           context_document |-> "", ai_analysis |-> "", threshold |-> 0]

Init ==
    /\ dataset \in Datasets
    /\ fs = [p \in Paths |-> NoFile]
    /\ now = [day |-> 0, pm |-> FALSE]
    /\ pc = "idle"
    /\ call = NoCall
    /\ out = <<>>
    /\ err = "none"
    /\ ret = NoRet
    /\ agg = NoAgg
    /\ trace = <<>>
    /\ written = {}
    /\ renders = <<>>
    /\ calls = 0

\* time passes between calls and, inside main(), before the report is rendered
\* (the only reader of the clock)
Tick ==
    /\ pc \in { "idle", "step6" }
    /\ IF now.pm THEN /\ now.day < MaxDay
                      /\ now' = [day |-> now.day + 1, pm |-> FALSE]
                 ELSE now' = [now EXCEPT !.pm = TRUE]
    /\ UNCHANGED <<dataset, fs, pc, call, out, err, ret, agg, trace, written, renders, calls>>

\* the record a successful rendering leaves in the history
Rendered(o) ==
    IF o.err = "none" /\ o.ret.kind = "report"
    THEN <<[clock |-> now, doc |-> o.ret.doc, file |-> o.fs[REPORT_PATH].data]>>
    ELSE <<>>

\* a top-level call of one function: its whole effect
Returns(c, o, paths) ==
    /\ pc = "idle"
    /\ calls < MaxCalls
    /\ calls' = calls + 1
    /\ call' = c
    /\ fs' = o.fs
    /\ out' = o.out
    /\ err' = o.err
    /\ ret' = o.ret
    /\ agg' = o.agg
    /\ trace' = <<>>
    /\ written' = paths
    /\ renders' = renders \o Rendered(o)
    /\ UNCHANGED <<dataset, now, pc>>

CallSaveJudgeConfig ==
    \E output_path \in { JUDGE_PATH, REPORT_PATH }, fail \in FailModes :
        Returns([NoCall EXCEPT !.fn = "save_judge_config", !.path = output_path],
                save_judge_config(fs, output_path, fail), { output_path })

CallRunJudgeMock ==
    Returns([NoCall EXCEPT !.fn = "run_llm_judge_evaluation", !.use_mock = TRUE],
            run_llm_judge_evaluation(TRUE, fs, dataset, "ok", "none"), {})

CallRunJudgeLive ==
    \E oumi \in OumiModes, fail \in FailModes :
        /\ oumi = "missing" => fail = "none"
        /\ Returns([NoCall EXCEPT !.fn = "run_llm_judge_evaluation", !.use_mock = FALSE,
                                  !.oumi = oumi],
                   run_llm_judge_evaluation(FALSE, fs, dataset, oumi, fail),
                   IF oumi = "missing" THEN {} ELSE { JUDGE_PATH })

CallVerify ==
    \E context_document \in Documents, ai_analysis \in Analyses, threshold \in Thresholds :
        Returns([NoCall EXCEPT !.fn = "verify_billing_claim",
                               !.context_document = context_document,
                               !.ai_analysis = ai_analysis, !.threshold = threshold],
                Outcome(fs, <<>>, "none",
                        [NoRet EXCEPT !.kind = "verification",
                                      !.verification = verify_billing_claim(context_document,
                                                                            ai_analysis, threshold)],
                        NoAgg),
                {})

CallGenerateReport ==
    \E fail \in FailModes :
        Returns([NoCall EXCEPT !.fn = "generate_evaluation_report"],
                generate_evaluation_report(fs, now, fail), { REPORT_PATH })

\* ------------------------------------------------------------------ main()
MainSteps == <<"step1", "step2", "step3", "step4", "step5", "step6", "final">>

\* main() with every step wrapped in a try/except that carries on
AfterStep_Swallow(k, e) == MainSteps[k + 1]

\* where main() goes after step k ended with exception e: an uncaught
\* exception leaves main(), otherwise the next statement runs
AfterStep(k, e) == IF e # "none" THEN "idle" ELSE MainSteps[k + 1]

CallMain ==
    /\ pc = "idle"
    /\ calls < MaxCalls
    /\ calls' = calls + 1
    /\ call' = [NoCall EXCEPT !.fn = "main"]
    /\ pc' = "step1"
    /\ out' = <<"banner">>
    /\ err' = "none"
    /\ ret' = NoRet
    /\ agg' = NoAgg
    /\ trace' = <<>>
    /\ written' = {}
    /\ UNCHANGED <<dataset, fs, now, renders>>

\* step k of main(): print the step line, run the function
MainStep(k, o, paths) ==
    /\ pc = MainSteps[k]
    /\ pc' = AfterStep(k, o.err)
    /\ fs' = o.fs
    /\ out' = out \o <<MainSteps[k]>> \o o.out
    /\ err' = o.err
    /\ ret' = o.ret
    /\ agg' = IF k = 3 THEN o.agg ELSE agg
    /\ trace' = Append(trace, k)
    /\ written' = written \cup paths
    /\ renders' = renders \o Rendered(o)
    /\ UNCHANGED <<dataset, now, call, calls>>

MainStep1 == \E fail \in FailModes :
    MainStep(1, create_evaluation_dataset(fs, dataset, fail), { DATASET_PATH })

MainStep2 == \E fail \in FailModes :
    MainStep(2, save_judge_config(fs, JUDGE_PATH, fail), { JUDGE_PATH })

MainStep3 == MainStep(3, run_llm_judge_evaluation(TRUE, fs, dataset, "ok", "none"), {})

MainStep4 == \E fail \in FailModes :
    MainStep(4, save_halloumi_integration(fs, fail), { HALLOUMI_PATH })

MainStep5 == \E fail \in FailModes :
    MainStep(5, create_evaluation_config(fs, fail), { EVAL_CONFIG_PATH })

MainStep6 == \E fail \in FailModes :
    MainStep(6, generate_evaluation_report(fs, now, fail), { REPORT_PATH })

\* the closing prints; main() returns
MainFinal ==
    /\ pc = "final"
    /\ pc' = "idle"
    /\ out' = out \o <<"complete", "files_created">>
    /\ ret' = NoRet
    /\ UNCHANGED <<dataset, fs, now, call, err, agg, trace, written, renders, calls>>

Next ==
    \/ Tick
    \/ CallSaveJudgeConfig
    \/ CallRunJudgeMock
    \/ CallRunJudgeLive
    \/ CallVerify
    \/ CallGenerateReport
    \/ CallMain
    \/ MainStep1
    \/ MainStep2
    \/ MainStep3
    \/ MainStep4
    \/ MainStep5
    \/ MainStep6
    \/ MainFinal

Spec == Init /\ [][Next]_vars

TypeOK ==
    /\ dataset \in Datasets
    /\ pc \in { "idle" } \cup { MainSteps[k] : k \in 1..7 }
    /\ calls \in 0..MaxCalls
    /\ err \in { "none", "OSError", "ZeroDivisionError", "Exception" }


\* ----------------------------------------------------------------- claims
\* the mock path of run_llm_judge_evaluation has run in the current call
\* (directly, or as step 3 of main) and was entered with use_mock=True
MockRan ==
    \/ call.fn = "run_llm_judge_evaluation" /\ call.use_mock
    \/ call.fn = "main" /\ \E i \in 1..Len(trace) : trace[i] = 3

CriteriaSet == { Criteria[k] : k \in 1..4 }

InRange(ds) == \A i \in 1..Len(ds) : \A c \in CriteriaSet : ds[i].expected_score[c] \in 1..10

RECURSIVE ColumnSum(_, _)
ColumnSum(ds, c) ==
    IF ds = <<>> THEN 0 ELSE ds[1].expected_score[c] + ColumnSum(Tail(ds), c)

\* C1: on the four shipped examples the mock path computes the averages
\* cpt_accuracy 8.75, error_detection 9.25, appeal_quality 8.0, compliance 9.0
\* and the overall average 8.75.
C1_ShippedAverages ==
    (MockRan /\ dataset = EVALUATION_DATASET) =>
        /\ agg.computed
        /\ agg.avg_scores["cpt_accuracy"] = [num |-> 35, den |-> 4]
        /\ agg.avg_scores["error_detection"] = [num |-> 37, den |-> 4]
        /\ agg.avg_scores["appeal_quality"] = [num |-> 8, den |-> 1]
        /\ agg.avg_scores["compliance"] = [num |-> 9, den |-> 1]
        /\ agg.overall_avg = [num |-> 35, den |-> 4]

C1_Witness ==
    /\ call.fn = "run_llm_judge_evaluation" /\ call.use_mock
    /\ dataset = EVALUATION_DATASET
    /\ agg.computed
    /\ ret.kind = "results" /\ Len(ret.results) = 4

\* C2: for every non-empty dataset with all scores in 1..10, each per-criterion
\* average is the arithmetic mean of that criterion's scores over all examples,
\* and the overall average is the mean of the four per-criterion averages.
C2_MeansOfMeans ==
    (MockRan /\ Len(dataset) > 0 /\ InRange(dataset)) =>
        /\ agg.computed
        /\ \A c \in CriteriaSet :
              agg.avg_scores[c].num * Len(dataset) = agg.avg_scores[c].den * ColumnSum(dataset, c)
        /\ LET a == agg.avg_scores
               D == a["cpt_accuracy"].den * a["error_detection"].den
                      * a["appeal_quality"].den * a["compliance"].den
               S == a["cpt_accuracy"].num * (D \div a["cpt_accuracy"].den)
                      + a["error_detection"].num * (D \div a["error_detection"].den)
                      + a["appeal_quality"].num * (D \div a["appeal_quality"].den)
                      + a["compliance"].num * (D \div a["compliance"].den)
           IN  agg.overall_avg.num * D * 4 = agg.overall_avg.den * S

\* a dataset other than the shipped one whose cpt_accuracy mean is not an integer
C2_Witness ==
    /\ MockRan
    /\ dataset # EVALUATION_DATASET
    /\ Len(dataset) > 0 /\ InRange(dataset)
    /\ agg.computed
    /\ agg.avg_scores["cpt_accuracy"].den > 1
    /\ agg.overall_avg.den > 1

\* C3: the aggregation fails with EmptyDatasetError if and only if the dataset
\* is empty (an empty dataset never ends in a raw division by zero).
C3_EmptyDatasetError ==
    MockRan => ((err = "EmptyDatasetError") <=> (Len(dataset) = 0))

\* C4: if any criterion score lies outside [1,10] the aggregation raises
\* InvalidScoreError before computing any average, so every score of every
\* result produced lies in [1,10].
C4_InvalidScoreError ==
    MockRan =>
        /\ ~InRange(dataset) =>
              (err = "InvalidScoreError" /\ ~agg.computed /\ ret.results = <<>>)
        /\ \A i \in 1..Len(ret.results) : \A c \in CriteriaSet :
              ret.results[i].scores[c] \in 1..10

\* C5: every result of verify_billing_claim satisfies
\* claims_supported + claims_unsupported = claims_verified = length of details.
C5_VerificationCounts ==
    (call.fn = "verify_billing_claim") =>
        /\ ret.kind = "verification"
        /\ ret.verification.claims_supported + ret.verification.claims_unsupported
              = ret.verification.claims_verified
        /\ ret.verification.claims_verified = Len(ret.verification.details)

C5_Witness ==
    /\ call.fn = "verify_billing_claim"
    /\ call.threshold = 90 /\ call.context_document = "policy" /\ call.ai_analysis = ""
    /\ ret.verification.claims_verified = 5

\* C6: for every threshold in (0,1], each entry of details is SUPPORTED when
\* its confidence is at least the threshold and UNSUPPORTED otherwise.
C6_ThresholdClassifies ==
    (call.fn = "verify_billing_claim" /\ call.threshold > 0 /\ call.threshold <= 100) =>
        \A i \in 1..Len(ret.verification.details) :
            LET d == ret.verification.details[i]
            IN  d.status = (IF d.confidence >= call.threshold THEN "SUPPORTED" ELSE "UNSUPPORTED")

\* C7: the report written by generate_evaluation_report shows, for each
\* criterion, the average the aggregation computed from the evaluation results
\* and the computed overall average, for any dataset.
C7_ReportShowsComputed ==
    (call.fn = "main" /\ Len(trace) = 6 /\ err = "none" /\ InRange(dataset)) =>
        /\ agg.computed
        /\ Len(fs[REPORT_PATH].data) = 1
        /\ LET doc == fs[REPORT_PATH].data[1]
           IN  /\ doc.kind = "report"
               /\ \A c \in CriteriaSet : doc.scores[c] = agg.avg_scores[c]
               /\ doc.overall = agg.overall_avg

\* C8: a live run with the framework unavailable falls back to the mock path,
\* reports the fallback before the mock evaluation prints anything, and returns
\* exactly what the mock path returns.
C8_FallbackToMock ==
    (call.fn = "run_llm_judge_evaluation" /\ ~call.use_mock /\ call.oumi = "missing") =>
        LET m == MockPath(fs, dataset)
        IN  /\ out = <<"oumi_not_installed">> \o m.out
            /\ out[2] = "mock_header"
            /\ ret = m.ret
            /\ err = m.err
            /\ agg = m.agg
            /\ Len(dataset) > 0 =>
                  /\ ret.kind = "results"
                  /\ Len(ret.results) = Len(dataset)
                  /\ \A i \in 1..Len(dataset) : ret.results[i].example_id = i

C8_Witness ==
    /\ call.fn = "run_llm_judge_evaluation" /\ ~call.use_mock /\ call.oumi = "missing"
    /\ ret.kind = "results" /\ Len(ret.results) = 2
    /\ out[1] = "oumi_not_installed"

\* the file step k of main() writes (step 3 writes none)
StepPaths(k) ==
    CASE k = 1 -> { DATASET_PATH }
      [] k = 2 -> { JUDGE_PATH }
      [] k = 4 -> { HALLOUMI_PATH }
      [] k = 5 -> { EVAL_CONFIG_PATH }
      [] k = 6 -> { REPORT_PATH }
      [] OTHER -> {}

\* C9: main() runs its steps in order, and a failure in any step aborts the
\* run: no later step executes, no later file is written, and the completion
\* message is not printed.
C9_FailureAborts ==
    (call.fn = "main") =>
        /\ \A i \in 1..Len(trace) : trace[i] = i
        /\ err # "none" =>
              /\ pc = "idle"
              /\ written \subseteq UNION { StepPaths(k) : k \in 1..Len(trace) }
              /\ \A i \in 1..Len(out) :
                    /\ out[i] \notin { "complete", "files_created" }
                    /\ \A k \in (Len(trace) + 1)..6 : out[i] # MainSteps[k]

\* step 4 failed after three steps succeeded
C9_Witness ==
    /\ call.fn = "main"
    /\ err = "OSError"
    /\ trace = <<1, 2, 3, 4>>
    /\ fs[DATASET_PATH].exists /\ fs[JUDGE_PATH].exists
    /\ ~fs[EVAL_CONFIG_PATH].exists /\ ~fs[REPORT_PATH].exists

\* C10: two renderings of the report at the same clock value produce identical
\* documents, and the second leaves the report file with the same content as
\* the first.
C10_RenderIdempotent ==
    \A i, j \in 1..Len(renders) :
        renders[i].clock = renders[j].clock =>
            /\ renders[i].doc = renders[j].doc
            /\ renders[i].file = renders[j].file

C10_Witness ==
    /\ Len(renders) >= 2
    /\ renders[1].clock = renders[2].clock
    /\ renders[2].file = <<renders[1].doc>>

\* C7 restricted to the shipped dataset (the literals of the template are its averages)
C7_ShippedOnly ==
    dataset = EVALUATION_DATASET => C7_ReportShowsComputed

\* C11: after save_judge_config(output_path) succeeds, output_path holds exactly
\* the judge-config template and the function returns output_path; this holds
\* when the path held other content before and when the config is emitted again.
C11_ConfigRoundTrip ==
    (call.fn = "save_judge_config" /\ err = "none") =>
        /\ fs[call.path].exists
        /\ fs[call.path].data = <<MEDICAL_BILLING_JUDGE_CONFIG>>
        /\ ret.kind = "path"
        /\ ret.path = call.path
        /\ out = <<"judge_config_saved">>

\* the config written over a report that an earlier call had rendered there
C11_Witness ==
    /\ call.fn = "save_judge_config" /\ err = "none"
    /\ call.path = REPORT_PATH
    /\ Len(renders) = 1
    /\ renders[1].file = <<renders[1].doc>>
    /\ fs[REPORT_PATH].data = <<MEDICAL_BILLING_JUDGE_CONFIG>>

\* the live path was requested in the current call
LiveRequested == call.fn = "run_llm_judge_evaluation" /\ ~call.use_mock

\* the mock fallback was taken: its warning is on the console
FellBack == \E i \in 1..Len(out) : out[i] = "oumi_not_installed"

\* C12: in the live path every error other than the framework being
\* unavailable is surfaced to the caller unmodified: the mock fallback is taken
\* only when the framework itself is unavailable, and mock results never stand
\* in for a failed live evaluation.
C12_OtherErrorsSurface ==
    (LiveRequested /\ call.oumi # "missing" /\ Len(dataset) > 0 /\ InRange(dataset)) =>
        /\ ~FellBack
        /\ ret.kind # "results"
        /\ ~agg.computed
        /\ call.oumi = "error" => err \in { "OSError", "Exception" }
        /\ call.oumi = "import_error" => err \in { "OSError", "ImportError" }

\* C12 for the errors that are not an ImportError: these do reach the caller
C12_NonImportErrors ==
    (LiveRequested /\ call.oumi = "error") =>
        /\ ~FellBack
        /\ ret = NoRet
        /\ ~agg.computed
        /\ err \in { "OSError", "Exception" }

\* what the mock path returned holds, for the example at each position i, one
\* result with example_id i, that example's four scores and their mean
ResultsMatchExamples ==
    /\ (call.fn = "run_llm_judge_evaluation" /\ call.use_mock /\ Len(dataset) > 0) =>
          ret.kind = "results"
    /\ ret.kind = "results" =>
          /\ Len(ret.results) = Len(dataset)
          /\ \A i \in 1..Len(dataset) :
                /\ ret.results[i].example_id = i
                /\ \A c \in CriteriaSet :
                      ret.results[i].scores[c] = dataset[i].expected_score[c]
                /\ ret.results[i].overall_score.num * 4
                      = ret.results[i].overall_score.den
                          * (dataset[i].expected_score["cpt_accuracy"]
                             + dataset[i].expected_score["error_detection"]
                             + dataset[i].expected_score["appeal_quality"]
                             + dataset[i].expected_score["compliance"])

\* C13: for the example at each position i (from 1) the mock aggregation
\* produces exactly one result, in input order, with example_id = i, scores
\* equal to the example's expected_score and overall_score their arithmetic
\* mean; the examples themselves are never changed.
C13_OneResultPerExample ==
    /\ []ResultsMatchExamples
    /\ [][dataset' = dataset]_vars

\* two different examples judged, the second with a non-integral mean
C13_Witness ==
    /\ call.fn = "run_llm_judge_evaluation" /\ call.use_mock
    /\ ret.kind = "results"
    /\ Len(dataset) = 2 /\ dataset[1] # dataset[2]
    /\ ret.results[2].example_id = 2
    /\ ret.results[2].overall_score.den > 1

\* number of entries of details with the given status
CountStatus(details, status) == Cardinality({ i \in 1..Len(details) : details[i].status = status })

\* C14: the result of verify_billing_claim agrees with its own details:
\* claims_supported is the number of SUPPORTED entries and claims_unsupported
\* the number of UNSUPPORTED entries.
C14_CountsMatchDetails ==
    (call.fn = "verify_billing_claim") =>
        /\ ret.verification.claims_supported
              = CountStatus(ret.verification.details, "SUPPORTED")
        /\ ret.verification.claims_unsupported
              = CountStatus(ret.verification.details, "UNSUPPORTED")

====
